---- MODULE Spec2Model ----
(***************************************************************************)
(* A model of bot.py, the Advent Music Calendar bot: the track catalog,    *)
(* the per-recipient rotation (/today), the vote ledger and its ranking,   *)
(* the subscriber set, the scheduled slot and TOP5 broadcasts with their   *)
(* broadcast log, and the administrator's /restore of the JSON files.      *)
(*                                                                         *)
(* Representation.  A calendar date is its day of December 2025 (16 is     *)
(* 2025-12-16); date.isoformat() strings are compared only for equality,   *)
(* so the same number stands for the ISO string, and NoDate stands for     *)
(* the empty string.  Track ids are the numbers their id strings spell.    *)
(* A JSON file is the value last written to it: every load_* / save_*      *)
(* pair reads and writes the whole file.  A Python dict whose iteration    *)
(* order matters (votes.json) is a sequence of entries in insertion        *)
(* order.  Each coroutine runs atomically from one await to the next.      *)
(***************************************************************************)
EXTENDS Integers, Sequences, FiniteSets, TLC

(***************************************************************************)
(* Bounds of the model.                                                    *)
(***************************************************************************)
NumChats == 2      \* chats (and users, in private chats) 1..NumChats
NumDays == 2       \* days after BROADCAST_END - 1 that the clock visits
MaxLikes == 2      \* likes per track in the ledgers drawn for the ranking
MaxRestores == 1   \* files the administrator uploads after /restore
MaxUploaded == 2   \* entries of a votes.json the administrator uploads

(***************************************************************************)
(* Program constants.                                                      *)
(***************************************************************************)
BROADCAST_START == 16
BROADCAST_END == 26
TopN == 5
\* ADMIN_USER_ID comes from the environment; the model's administrator is
\* user 1.
ADMIN_USER_ID == 1

NoDate == 0
Chats == 1..NumChats
Users == 1..NumChats
\* SLOT_SEND_TIMES' keys: main registers one daily job for each, one for
\* the ranking, and the /top5_test handler.  A job does not overlap itself
\* and the handlers of two updates do not overlap, so each is one
\* coroutine, named by its slot, "TOP5" or "TEST".
Slots == {"1", "2", "3"}
Procs == Slots \cup {"TOP5", "TEST"}
\* The days the clock visits: the day before the campaign, one ordinary
\* campaign day, the final day, and the days after it.
FirstDay == BROADCAST_START - 1
Days == {FirstDay} \cup ((BROADCAST_END - 1)..(BROADCAST_END - 1 + NumDays))

Range(s) == {s[i] : i \in 1..Len(s)}
Min(a, b) == IF a <= b THEN a ELSE b

(***************************************************************************)
(* tracks.csv as load_tracks parses it: a list of rows in file order.      *)
(***************************************************************************)
Track(id, d, slot, title, link, audio, message) ==
    [id |-> id, date |-> d, slot |-> slot, title_artist |-> title,
     video_link |-> link, audio |-> audio, message |-> message]

\* Two tracks in slot "1" of day 25, one in slot "2" of day 26.
CatalogA ==
    << Track(1, 25, "1", "A", "http://a", "", ""),
       Track(2, 25, "1", "B", "", "file-b", "hello"),
       Track(3, 26, "2", "C", "", "", "") >>
\* The same slot with the rows in the other order, and a row that has only
\* a message.
CatalogB ==
    << Track(2, 25, "1", "B", "", "", ""),
       Track(1, 25, "1", "A", "", "", ""),
       Track(3, 26, "2", "", "", "", "only a message") >>
\* More tracks than the ranking has places.
CatalogC ==
    << Track(1, 16, "1", "A", "", "", ""),
       Track(2, 16, "2", "B", "", "", ""),
       Track(3, 17, "1", "C", "http://c", "", ""),
       Track(4, 17, "2", "D", "", "", ""),
       Track(5, 18, "1", "E", "", "", ""),
       Track(6, 18, "2", "F", "", "", "") >>
\* Two tracks.
CatalogV ==
    << Track(1, 25, "1", "A", "", "", ""),
       Track(2, 25, "2", "B", "http://b", "", "") >>
\* Rows dated before, in and after the campaign window.
CatalogW ==
    << Track(1, 15, "1", "A", "", "", ""),
       Track(2, 25, "1", "B", "", "", ""),
       Track(3, 27, "1", "C", "", "", "") >>
Catalogs == {<< >>, CatalogA, CatalogB}

TrackIds(tracks) == {tracks[i].id : i \in 1..Len(tracks)}
\* Ids a vote button can carry: those of the catalog and one of a track
\* that has since been removed from tracks.csv.
StaleId == Len(CatalogC) + 1
VoteIds(tracks) == TrackIds(tracks) \cup {StaleId}

VARIABLES
    TRACKS_CACHE,   \* the catalog load_tracks returns
    clock,          \* get_local_now().date()
    subscribers,    \* subscribers.json: set of chat ids
    broadcast_log,  \* broadcast_log.json: chat id -> entry
    votes,          \* votes.json: entries in insertion order
    history,        \* user_history.json: chat id -> entry
    proc,           \* the broadcast coroutines
    reply,          \* the answer the last step gave to a vote, /today, /top5
                    \* or /top5_test, if it gave one
    picks,          \* per chat, the track ids /today chose, in order
    answers,        \* per chat, what /today returned last and when
    finished,       \* the broadcast coroutine the last step ended, as it
                    \* ended, if it ended one
    lastDone,       \* the slot broadcast that finished last, while the
                    \* subscribers and the log are as it left them
    doneDeliv,      \* <<chat, slot>>: a slot job that has ended delivered
                    \* every track of the slot to the chat today;
                    \* <<chat, "TOP5">>: a scheduled ranking job that no
                    \* other broadcast could overlap has ended and
                    \* delivered the ranking to the chat today
    exposed,        \* the pairs of doneDeliv after whose job's end a job
                    \* that was in flight at that end has saved the log, or
                    \* an upload has overwritten it
    wants,          \* the chats whose last /subscribe or /unsubscribe was
                    \* /subscribe, and that no send has found to have
                    \* blocked the bot since
    awaiting_restore,   \* context.user_data["awaiting_restore"] of the
                        \* administrator
    restoring,      \* the name of the file handle_restore_file is
                    \* downloading, if it is at that await
    restored,       \* the names of the files handle_restore_file has
                    \* overwritten, in order
    noops           \* which of the conditions that leave a scheduled job
                    \* nothing to do have, each alone, held at the start
                    \* of a job that then ended; this history is kept
                    \* under SpecNoOp, until a broadcast first awaits a send

vars == << TRACKS_CACHE, clock, subscribers, broadcast_log, votes, history,
           proc, reply, picks, answers, finished, lastDone, doneDeliv, exposed,
           wants, awaiting_restore, restoring, restored, noops >>
restoreVars == << awaiting_restore, restoring, restored >>

(***************************************************************************)
(* Votes (vote_callback) and the ranking (build_top5_text).                *)
(***************************************************************************)
NoVoteEntry == [likes |-> 0, voters |-> {}]

\* Position of track_id's entry in the ledger, 0 when it has none.
VoteIndex(v, track_id) ==
    IF \E i \in 1..Len(v) : v[i].track_id = track_id
    THEN CHOOSE i \in 1..Len(v) : v[i].track_id = track_id
    ELSE 0

\* votes.get(track_id, {"likes": 0, "voters": []})
VotesGet(v, track_id) ==
    IF VoteIndex(v, track_id) = 0 THEN NoVoteEntry
    ELSE [likes |-> v[VoteIndex(v, track_id)].likes,
          voters |-> v[VoteIndex(v, track_id)].voters]

\* A save that writes the voted track's entry alone.
VotesSetOnly(v, track_id, entry) ==
    << [track_id |-> track_id, likes |-> entry.likes, voters |-> entry.voters] >>

\* votes[track_id] = entry: an existing key keeps its place, a new one goes
\* last.
VotesSet(v, track_id, entry) ==
    IF VoteIndex(v, track_id) = 0
    THEN Append(v, [track_id |-> track_id, likes |-> entry.likes,
                    voters |-> entry.voters])
    ELSE [v EXCEPT ![VoteIndex(v, track_id)] =
              [track_id |-> track_id, likes |-> entry.likes,
               voters |-> entry.voters]]

\* A handler without the check of the voters.
AlreadyVotedNever(voters, user_id) == FALSE

\* if user_id in voters
AlreadyVoted(voters, user_id) == user_id \in voters

\* The ledger vote_callback saves, or the ledger as it is when the user had
\* voted.
VotesAfterVote(v, track_id, user_id) ==
    LET entry == VotesGet(v, track_id)
    IN  IF AlreadyVoted(entry.voters, user_id) THEN v
        ELSE VotesSet(v, track_id,
                      [likes |-> entry.likes + 1,
                       voters |-> entry.voters \cup {user_id}])

VoteAnswer(v, track_id, user_id) ==
    IF AlreadyVoted(VotesGet(v, track_id).voters, user_id)
    THEN "ALREADY_VOTED" ELSE "ACCEPTED"

\* track_by_id = {t["id"]: t for t in tracks}: the last row with an id wins.
TrackById(tracks, id) ==
    tracks[CHOOSE i \in 1..Len(tracks) :
              /\ tracks[i].id = id
              /\ \A j \in 1..Len(tracks) : tracks[j].id = id => j <= i]

\* scored: the ledger's entries with likes > 0 and a track in the catalog,
\* in the ledger's order.
RECURSIVE Scored(_, _)
Scored(tracks, v) ==
    IF v = << >> THEN << >>
    ELSE LET info == v[Len(v)]
             rest == Scored(tracks, SubSeq(v, 1, Len(v) - 1))
         IN  IF info.likes <= 0 THEN rest
             ELSE IF info.track_id \in TrackIds(tracks)
                  THEN Append(rest, [likes |-> info.likes,
                                     track |-> TrackById(tracks, info.track_id)])
                  ELSE rest

\* A sort that is not stable: x goes before the elements with its likes.
RECURSIVE InsertBeforeTies(_, _)
InsertBeforeTies(s, x) ==
    IF s = << >> THEN << x >>
    ELSE IF s[1].likes > x.likes
         THEN << s[1] >> \o InsertBeforeTies(Tail(s), x)
         ELSE << x >> \o s

\* x put into s, a list sorted by likes descending, behind every element
\* with at least as many likes.
RECURSIVE InsertByLikes(_, _)
InsertByLikes(s, x) ==
    IF s = << >> THEN << x >>
    ELSE IF s[1].likes >= x.likes
         THEN << s[1] >> \o InsertByLikes(Tail(s), x)
         ELSE << x >> \o s

\* A sort without reverse=True.
RECURSIVE SortAscending(_)
SortAscending(s) ==
    IF s = << >> THEN << >>
    ELSE LET rest == SortAscending(SubSeq(s, 1, Len(s) - 1))
             x == s[Len(s)]
             RECURSIVE Ins(_)
             Ins(r) == IF r = << >> THEN << x >>
                       ELSE IF r[1].likes <= x.likes
                            THEN << r[1] >> \o Ins(Tail(r))
                            ELSE << x >> \o r
         IN  Ins(rest)

\* scored.sort(key=lambda x: x[0], reverse=True): stable, equal likes keep
\* their order.
RECURSIVE SortByLikes(_)
SortByLikes(s) ==
    IF s = << >> THEN << >>
    ELSE InsertByLikes(SortByLikes(SubSeq(s, 1, Len(s) - 1)), s[Len(s)])

\* A ranking without the slice.
NoCut(s) == s

\* scored[:5]
TopCut(s) == SubSeq(s, 1, Min(TopN, Len(s)))

\* A ranking that takes the first TopN entries of the ledger by likes and
\* then drops those without a track.
Top5CutFirst(tracks, v) == Scored(tracks, TopCut(SortByLikes(v)))

\* The ranking build_top5_text renders: one line per entry of top.
Top5(tracks, v) == TopCut(SortByLikes(Scored(tracks, v)))

\* A text that is a ranking even when nothing scored.
RankingAlways(tracks, v) ==
    [kind |-> "ranking", lines |-> << >>]

\* build_top5_text's text: the no-votes message, or the header and one
\* line (position, title, likes, link) per ranked track.
build_top5_text(tracks, v) ==
    IF Scored(tracks, v) = << >>
    THEN [kind |-> "no_votes", lines |-> << >>]
    ELSE LET top == Top5(tracks, v)
         IN  [kind |-> "ranking",
              lines |-> [i \in 1..Len(top) |->
                            [pos |-> i,
                             id |-> top[i].track.id,
                             title |-> top[i].track.title_artist,
                             likes |-> top[i].likes,
                             link |-> top[i].track.video_link]]]

(***************************************************************************)
(* The rotation behind /today (choose_track_for_user).                     *)
(***************************************************************************)
\* history.get(key) when the chat has no entry: None.  Its fields are what
\* the code reads from a missing entry.
NoHistory == [last_date |-> NoDate, track_id |-> 0, used_track_ids |-> {}]

NeverSameDay(user_entry, today_date) == FALSE

\* if user_entry and user_entry.get("last_date") == today_date
SameDay(user_entry, today_date) ==
    user_entry # NoHistory /\ user_entry.last_date = today_date

\* for t in tracks: if t["id"] == track_id: return t -- the index of the
\* first row with the stored id, 0 when the loop finds none.
StoredTrackIndex(tracks, user_entry) ==
    IF \E i \in 1..Len(tracks) : tracks[i].id = user_entry.track_id
    THEN CHOOSE i \in 1..Len(tracks) :
            /\ tracks[i].id = user_entry.track_id
            /\ \A j \in 1..(i - 1) : tracks[j].id # user_entry.track_id
    ELSE 0

\* Whether the first return of choose_track_for_user is taken.
ReturnsStored(tracks, user_entry, today_date) ==
    /\ SameDay(user_entry, today_date)
    /\ StoredTrackIndex(tracks, user_entry) # 0

\* available = [t for t in tracks if t["id"] not in used_ids], as indexes
\* into tracks.
Unused(tracks, used_ids) ==
    {i \in 1..Len(tracks) : tracks[i].id \notin used_ids}

AvailableNoFilter(tracks, user_entry) == 1..Len(tracks)

\* The rows random.choice draws from: the unused ones, or every row once
\* none is left.
Available(tracks, user_entry) ==
    IF Unused(tracks, user_entry.used_track_ids) = {}
    THEN 1..Len(tracks)
    ELSE Unused(tracks, user_entry.used_track_ids)

\* A choice that is not added to the used ids.
UsedWithoutChosen(tracks, user_entry, chosen) ==
    user_entry.used_track_ids

UsedKeepsAll(tracks, user_entry, chosen) ==
    user_entry.used_track_ids \cup {tracks[chosen].id}

\* used_ids after used_ids.add(chosen["id"]): emptied first when no row
\* was unused.
UsedAfter(tracks, user_entry, chosen) ==
    IF Unused(tracks, user_entry.used_track_ids) = {}
    THEN {tracks[chosen].id}
    ELSE user_entry.used_track_ids \cup {tracks[chosen].id}

\* history[key] as choose_track_for_user writes it for the row chosen.
HistoryAfter(tracks, user_entry, today_date, chosen) ==
    [last_date |-> today_date,
     track_id |-> tracks[chosen].id,
     used_track_ids |-> UsedAfter(tracks, user_entry, chosen)]

(***************************************************************************)
(* Handlers' answers.                                                      *)
(***************************************************************************)
NoText == [kind |-> "none", lines |-> << >>]
Reply(h, who, kind, id, body) ==
    [h |-> h, who |-> who, kind |-> kind, id |-> id, body |-> body]
NoReply == Reply("", 0, "", 0, NoText)
NoTrack == Track(0, NoDate, "", "", "", "", "")
\* track: the row returned; again: the call before it, for the same chat,
\* was made on the same date.
NoAnswer == [date |-> NoDate, track |-> NoTrack, again |-> FALSE]
Answer(old, d, t) == [date |-> d, track |-> t, again |-> old.date = d]


(***************************************************************************)
(* The catalog lookups and the broadcast log of the scheduled jobs.        *)
(***************************************************************************)
\* title_artist, video_link or audio is not blank
HasContent(t) == t.title_artist # "" \/ t.video_link # "" \/ t.audio # ""

\* The rows get_tracks_for_date_slot appends to out, in file order.
RECURSIVE Matching(_, _, _)
Matching(tracks, day_iso, slot) ==
    IF tracks = << >> THEN << >>
    ELSE LET t == tracks[Len(tracks)]
             rest == Matching(SubSeq(tracks, 1, Len(tracks) - 1), day_iso, slot)
         IN  IF t.date = day_iso /\ t.slot = slot /\ HasContent(t)
             THEN Append(rest, t) ELSE rest

\* x put into s, a list sorted by id, behind every element whose id is not
\* larger.
RECURSIVE InsertById(_, _)
InsertById(s, x) ==
    IF s = << >> THEN << x >>
    ELSE IF s[1].id <= x.id
         THEN << s[1] >> \o InsertById(Tail(s), x)
         ELSE << x >> \o s

\* A lookup without the sort.
FileOrder(s) == s

\* out.sort(key=lambda x: int(x.get("id") or 0))
RECURSIVE SortById(_)
SortById(s) ==
    IF s = << >> THEN << >>
    ELSE InsertById(SortById(SubSeq(s, 1, Len(s) - 1)), s[Len(s)])

get_tracks_for_date_slot(tracks, day_iso, slot) ==
    SortById(Matching(tracks, day_iso, slot))

\* A slot job without the check of the window.
AnyDate(d) == FALSE

\* today < BROADCAST_START or today > BROADCAST_END
OutsideWindow(d) == d < BROADCAST_START \/ d > BROADCAST_END

\* log.get(key, {"last_date": "", "sent_slots": []}) for a chat without an
\* entry; the log is a function that holds this for such a chat.
NoLogEntry == [last_date |-> NoDate, sent_slots |-> << >>]
EmptyLog == [c \in Chats |-> NoLogEntry]

\* An entry without the reset.
LogEntryKeepsDate(log, chat, today_iso) == log[chat]

\* entry, with the reset of an entry of another date.
LogEntry(log, chat, today_iso) ==
    IF log[chat].last_date # today_iso
    THEN [last_date |-> today_iso, sent_slots |-> << >>]
    ELSE log[chat]

\* A loop without the check of the sent slots.
NeverSent(entry, tag) == FALSE

\* if slot in entry.get("sent_slots", [])
AlreadySent(entry, tag) == tag \in Range(entry.sent_slots)

\* A loop that records the slot in place of the tags of the entry.
MarkedAlone(entry, tag) == [entry EXCEPT !.sent_slots = << tag >>]

\* A loop that does not record the slot.
Unmarked(entry, tag) == entry

\* entry["sent_slots"].append(slot)
Marked(entry, tag) == [entry EXCEPT !.sent_slots = Append(@, tag)]

Outcomes == {"ok", "forbidden", "error"}

\* A send that keeps the subscriber that blocked the bot.
SubsKept(subs, chat_id, outcome) == subs

\* subscribers.json after send_track_to_chat's except clauses: Forbidden
\* loads the set, discards the chat and saves it.
SubsAfterSend(subs, chat_id, outcome) ==
    IF outcome = "forbidden" /\ chat_id \in subs THEN subs \ {chat_id}
    ELSE subs

\* wants after a send to chat_id: a chat that has blocked the bot is no
\* subscriber any more.
WantsAfterSend(w, chat_id, outcome) ==
    IF outcome = "forbidden" THEN w \ {chat_id} ELSE w

\* list(subs): the chats of the set in some order.
Orders(subs) ==
    {o \in [1..Cardinality(subs) -> subs] :
        \A i, j \in 1..Cardinality(subs) : o[i] = o[j] => i = j}

(***************************************************************************)
(* A broadcast coroutine: broadcast_slot_job, broadcast_top5_daily_job or  *)
(* top5_test, with its local variables, and for the properties below:      *)
(* attempts, the sends it awaited and how each ended; rerun, it is a slot  *)
(* job started with the subscribers and the log as the job for the same    *)
(* slot and date left them; known, the chats of doneDeliv for its slot     *)
(* when it started; intact, those of known not in exposed; behind, another *)
(* job has saved the log since this one loaded it; alone, it is a ranking  *)
(* job started under a scheduling that lets no other broadcast start       *)
(* before it ends; wiped, the chats whose entry of another date it wrote   *)
(* anew.                                                                   *)
(***************************************************************************)
NoneDone == [slot |-> "", date |-> NoDate]

IdleProc ==
    [kind |-> "none", pc |-> "idle", result |-> "", slot |-> "",
     date |-> NoDate, force |-> FALSE, caller |-> 0,
     order |-> << >>, i |-> 0, k |-> 0,
     subs |-> {}, log |-> EmptyLog, text |-> NoText,
     sent |-> 0, skipped |-> 0,
     attempts |-> << >>, rerun |-> FALSE, known |-> {}, intact |-> {},
     behind |-> FALSE, alone |-> FALSE, wiped |-> {}]

InFlight(p) == proc[p].pc \in {"announce", "sending"}

\* Scheduling: "free" lets the coroutines interleave at every await;
\* "exclusive" runs one broadcast at a time and lets the other handlers
\* run at its awaits; "serial" runs every handler and broadcast to its end
\* before the next starts.  An update's handler starts when the handler of
\* the update before it has returned.
NoFile == ""
CanStart(p, mode) ==
    /\ ~InFlight(p)
    /\ mode # "free" => \A q \in Procs : ~InFlight(q)
    /\ mode = "serial" => restoring = NoFile
CanHandle(mode) ==
    /\ ~InFlight("TEST")
    /\ mode = "serial" =>
          /\ \A q \in Procs : ~InFlight(q)
          /\ restoring = NoFile

\* The chats that got every track of the slot in this run.
GotAll(st, tracks) ==
    {c \in Chats :
        \A n \in 1..Len(tracks) :
            \E a \in 1..Len(st.attempts) :
                st.attempts[a] = << c, tracks[n].id, "ok" >>}

\* The chats that got the ranking in this run.
GotRanking(st) ==
    {c \in Chats : \E a \in 1..Len(st.attempts) :
        st.attempts[a] = << c, 0, "ok" >>}

\* doneDeliv after the scheduled ranking job has gone on as st: its
\* deliveries are recorded when no other broadcast could overlap it.
Top5Done(st) ==
    IF st.pc = "done" /\ ~st.force /\ st.date = clock /\ st.alone
    THEN doneDeliv \cup {<< c, "TOP5" >> : c \in GotRanking(st)}
    ELSE doneDeliv

\* wiped after the job has marked chat_id: the chats whose entry it
\* loaded with tags of another date and wrote anew.
WipedAfter(st, chat_id) ==
    IF st.log[chat_id].last_date \notin {NoDate, st.date}
    THEN st.wiped \cup {chat_id} ELSE st.wiped

\* The for loop of broadcast_slot_job from chat number st.i up to the next
\* await, or to its end.
RECURSIVE SlotScan(_)
SlotScan(st) ==
    IF st.i > Len(st.order) THEN [st EXCEPT !.pc = "done"]
    ELSE IF AlreadySent(LogEntry(st.log, st.order[st.i], st.date), st.slot)
         THEN SlotScan([st EXCEPT !.skipped = @ + 1, !.i = @ + 1])
         ELSE [st EXCEPT !.pc = "sending", !.k = 1]

\* A ranking broadcast that skips the marked chats in force mode too.
SkipsWhenForced(force, entry) == AlreadySent(entry, "TOP5")

\* if (not force) and ("TOP5" in entry.get("sent_slots", []))
Top5Skips(force, entry) == (~force) /\ AlreadySent(entry, "TOP5")

\* A ranking broadcast that records nothing.
RecordsNever(force) == FALSE

\* if not force: the mark of a delivery, and the save of the log.
Top5Records(force) == ~force

\* A loop that a send ends.
ScanEnds(st) == [st EXCEPT !.pc = "done"]

\* The for loop of broadcast_top5_to_all, likewise.
RECURSIVE Top5Scan(_)
Top5Scan(st) ==
    IF st.i > Len(st.order) THEN [st EXCEPT !.pc = "done"]
    ELSE IF Top5Skips(st.force,
                      LogEntry(st.log, st.order[st.i], st.date))
         THEN Top5Scan([st EXCEPT !.skipped = @ + 1, !.i = @ + 1])
         ELSE [st EXCEPT !.pc = "sending", !.k = 0]

\* The coroutine st ends with save_broadcast_log.
Saves(st) == st.pc = "done" /\ st.result = "ran" /\ ~st.force

\* The history noops is not kept.
NoOpsOff == {"off"}
\* There is a row of the catalog for today and slot.
RowFor(slot) ==
    \E n \in 1..Len(TRACKS_CACHE) :
        TRACKS_CACHE[n].date = clock /\ TRACKS_CACHE[n].slot = slot

\* The one condition that leaves the scheduled job p nothing to do now, if
\* there is exactly one: the day before or after the window, no row for
\* the slot, no subscriber; for the ranking job, another day than the
\* final one.
NoOpCase(p) ==
    IF p \in Slots
    THEN IF subscribers # {} /\ RowFor(p)
         THEN IF clock < BROADCAST_START THEN {"before"}
              ELSE IF clock > BROADCAST_END THEN {"after"} ELSE {}
         ELSE IF clock < BROADCAST_START \/ clock > BROADCAST_END THEN {}
         ELSE IF subscribers # {} THEN {"no_row"}
         ELSE IF RowFor(p) THEN {"no_subs"} ELSE {}
    ELSE IF p = "TOP5" /\ clock # BROADCAST_END /\ subscribers # {}
         THEN {"not_the_day"} ELSE {}

\* noops after the step in which coroutine p ends.
NoOpsAfter(p) ==
    IF noops = NoOpsOff \/ proc[p].pc # "idle" THEN noops
    ELSE noops \cup NoOpCase(p)

\* Coroutine p goes on as st; one that has ended leaves its slot, and if
\* it saved the log, the others that loaded the log before are behind.
Continues(p, st) ==
    IF st.pc = "done"
    THEN /\ proc' = [q \in Procs |->
                       IF q = p THEN IdleProc
                       ELSE IF Saves(st) /\ proc[q].pc = "sending"
                            THEN [proc[q] EXCEPT !.behind = TRUE]
                            ELSE proc[q]]
         /\ finished' = st
         /\ noops' = NoOpsAfter(p)
    ELSE /\ proc' = [proc EXCEPT ![p] = st]
         /\ finished' = IdleProc
         /\ noops' = NoOpsOff

\* exposed after coroutine st has gone on.
ExposedAfter(st) ==
    IF Saves(st) /\ st.behind THEN doneDeliv ELSE exposed

\* lastDone after a step that is not the end of a slot broadcast.
Untouched ==
    IF subscribers' = subscribers /\ broadcast_log' = broadcast_log
    THEN lastDone ELSE NoneDone

TypeOK ==
    /\ TRACKS_CACHE \in Catalogs \cup {CatalogC, CatalogV, CatalogW}
    /\ clock \in Days
    /\ subscribers \subseteq Chats
    /\ DOMAIN broadcast_log = Chats
    /\ DOMAIN history = Chats
    /\ DOMAIN proc = Procs
    /\ \A p \in Procs : proc[p].pc \in {"idle", "announce", "sending"}
    /\ awaiting_restore \in BOOLEAN
    /\ restoring \in {NoFile, "subscribers.json", "votes.json",
                      "broadcast_log.json"}
    /\ Len(restored) <= MaxRestores
    /\ \/ noops = NoOpsOff
       \/ noops \subseteq {"before", "after", "no_row", "no_subs",
                            "not_the_day"}

\* The bot starts on day with one of catalogs loaded and its files, but
\* for votes.json, empty; kept is the history noops at the start.
StartedKeeping(catalogs, day, kept) ==
    /\ TRACKS_CACHE \in catalogs
    /\ clock = day
    /\ subscribers = {}
    /\ broadcast_log = EmptyLog
    /\ history = [c \in Chats |-> NoHistory]
    /\ proc = [p \in Procs |-> IdleProc]
    /\ reply = NoReply
    /\ picks = [c \in Chats |-> << >>]
    /\ answers = [c \in Chats |-> NoAnswer]
    /\ finished = IdleProc
    /\ lastDone = NoneDone
    /\ doneDeliv = {}
    /\ exposed = {}
    /\ wants = {}
    /\ awaiting_restore = FALSE
    /\ restoring = NoFile
    /\ restored = << >>
    /\ noops = kept

Started(catalogs, day) == StartedKeeping(catalogs, day, NoOpsOff)

Init == Started(Catalogs, FirstDay) /\ votes = << >>

\* The bot started on the final day, with CatalogA.
InitFinalDay == Started({CatalogA}, BROADCAST_END) /\ votes = << >>

\* The ledger that votes for the tracks order[1], order[2], ... in this
\* order of first votes leave, when track order[i] has the likes of the
\* users 1..likes[i].
Ledger(order, likes) ==
    [i \in DOMAIN order |->
        [track_id |-> order[i], likes |-> likes[i], voters |-> 1..likes[i]]]

\* The bot with a catalog of two tracks, for the votes.
InitVotes == Started({CatalogV}, FirstDay) /\ votes = << >>

\* The bot with more tracks than the ranking has places, and votes cast:
\* every order of first votes, every number of likes up to MaxLikes.
InitTop5 ==
    /\ Started({CatalogC}, FirstDay)
    /\ \E k \in 0..Len(CatalogC) :
          \E order \in [1..k -> TrackIds(CatalogC)] :
             /\ \A i, j \in 1..k : order[i] = order[j] => i = j
             /\ \E likes \in [1..k -> 1..MaxLikes] :
                   votes = Ledger(order, likes)

rotationVars == << history, picks, answers >>
broadcastVars ==
    << subscribers, broadcast_log, proc, lastDone, doneDeliv, exposed, wants >>
\* A step that answers nothing, and one that ends no broadcast.
Silent == reply' = NoReply
NoneEnds == finished' = IdleProc /\ noops' = noops

(***************************************************************************)
(* Handlers.                                                               *)
(***************************************************************************)
vote_callback(track_id, user_id) ==
    /\ votes' = VotesAfterVote(votes, track_id, user_id)
    /\ reply' = Reply("vote", user_id, VoteAnswer(votes, track_id, user_id),
                      track_id, NoText)
    /\ NoneEnds
    /\ UNCHANGED << restoreVars, TRACKS_CACHE, clock, rotationVars, broadcastVars >>

top5(user_id) ==
    /\ reply' = Reply("top5", user_id, "text", 0,
                      build_top5_text(TRACKS_CACHE, votes))
    /\ NoneEnds
    /\ UNCHANGED << restoreVars, TRACKS_CACHE, clock, votes, rotationVars, broadcastVars >>

\* /today: choose_track_for_user and the answer.  picks and answers record
\* what it returned.
today(chat_id) ==
    LET user_entry == history[chat_id]
    IN  /\ \/ /\ TRACKS_CACHE = << >>
              /\ reply' = Reply("today", chat_id, "no_tracks", 0, NoText)
              /\ UNCHANGED rotationVars
           \/ /\ TRACKS_CACHE # << >>
              /\ ReturnsStored(TRACKS_CACHE, user_entry, clock)
              /\ LET t == TRACKS_CACHE[StoredTrackIndex(TRACKS_CACHE, user_entry)]
                 IN  /\ reply' = Reply("today", chat_id, "track", t.id, NoText)
                     /\ answers' = [answers EXCEPT ![chat_id] =
                                        Answer(@, clock, t)]
              /\ UNCHANGED << history, picks >>
           \/ /\ TRACKS_CACHE # << >>
              /\ ~ReturnsStored(TRACKS_CACHE, user_entry, clock)
              /\ \E chosen \in Available(TRACKS_CACHE, user_entry) :
                    /\ history' = [history EXCEPT ![chat_id] =
                          HistoryAfter(TRACKS_CACHE, user_entry, clock, chosen)]
                    /\ picks' = [picks EXCEPT ![chat_id] =
                          Append(@, TRACKS_CACHE[chosen].id)]
                    /\ answers' = [answers EXCEPT ![chat_id] =
                          Answer(@, clock, TRACKS_CACHE[chosen])]
                    /\ reply' = Reply("today", chat_id, "track",
                                      TRACKS_CACHE[chosen].id, NoText)
        /\ NoneEnds
        /\ UNCHANGED << restoreVars, TRACKS_CACHE, clock, votes, broadcastVars >>

\* subscribe and unsubscribe; their answers are not recorded.
subscribe(chat_id, mode) ==
    /\ CanHandle(mode)
    /\ subscribers' = IF chat_id \in subscribers THEN subscribers
                      ELSE subscribers \cup {chat_id}
    /\ Silent /\ NoneEnds
    /\ UNCHANGED << restoreVars, TRACKS_CACHE, clock, votes, rotationVars, broadcast_log,
                    proc, doneDeliv, exposed >>
    /\ lastDone' = Untouched
    /\ wants' = wants \cup {chat_id}

unsubscribe(chat_id, mode) ==
    /\ CanHandle(mode)
    /\ subscribers' = IF chat_id \notin subscribers THEN subscribers
                      ELSE subscribers \ {chat_id}
    /\ Silent /\ NoneEnds
    /\ UNCHANGED << restoreVars, TRACKS_CACHE, clock, votes, rotationVars, broadcast_log,
                    proc, doneDeliv, exposed >>
    /\ lastDone' = Untouched
    /\ wants' = wants \ {chat_id}

\* Midnight passes, perhaps several times, whatever coroutine is suspended
\* at an await: a job in flight goes on with the date it read at its start.
Tick ==
    /\ \E d \in Days : d > clock /\ clock' = d
    /\ doneDeliv' = {}
    /\ exposed' = {}
    /\ Silent /\ NoneEnds
    /\ UNCHANGED << restoreVars, TRACKS_CACHE, votes, rotationVars, subscribers,
                    broadcast_log, proc, lastDone, wants >>

\* The bot is stopped and started again, with any tracks.csv: the
\* coroutines suspended at an await end with the process, user_data of the
\* new Application is empty, load_tracks fills TRACKS_CACHE on its first
\* call, the JSON files are as they were.
Restart(catalog) ==
    /\ TRACKS_CACHE' = catalog
    /\ proc' = [p \in Procs |-> IdleProc]
    /\ awaiting_restore' = FALSE
    /\ restoring' = NoFile
    /\ lastDone' = NoneDone
    /\ Silent /\ NoneEnds
    /\ UNCHANGED << restored, clock, votes, rotationVars, subscribers,
                    broadcast_log, doneDeliv, exposed, wants >>

(***************************************************************************)
(* broadcast_slot_job.                                                     *)
(***************************************************************************)
\* What the end of a slot broadcast leaves for the properties: the run
\* that finished last, and the chats it delivered the whole slot to today.
SlotEnds(st) ==
    /\ lastDone' = [slot |-> st.slot, date |-> st.date]
    /\ \E tracks \in {get_tracks_for_date_slot(TRACKS_CACHE, st.date,
                                                st.slot)} :
          doneDeliv' =
             IF st.date = clock
             THEN doneDeliv \cup {<< c, st.slot >> : c \in GotAll(st, tracks)}
             ELSE doneDeliv

\* The job from its start to its first await, or to its end.
broadcast_slot_job(slot, mode) ==
    LET tracks == get_tracks_for_date_slot(TRACKS_CACHE, clock, slot)
        st0 == [IdleProc EXCEPT
                  !.kind = "slot", !.slot = slot, !.date = clock, !.pc = "done",
                  !.rerun = (lastDone = [slot |-> slot, date |-> clock]),
                  !.known = {c \in Chats : << c, slot >> \in doneDeliv},
                  !.intact = {c \in Chats :
                                 << c, slot >> \in doneDeliv \ exposed}]
    IN  /\ CanStart(slot, mode)
        /\ \/ /\ OutsideWindow(clock)
              /\ Continues(slot, [st0 EXCEPT !.result = "outside"])
              /\ UNCHANGED << broadcast_log, lastDone, doneDeliv, exposed, wants >>
           \/ /\ ~OutsideWindow(clock)
              /\ tracks = << >>
              /\ Continues(slot, [st0 EXCEPT !.result = "no_tracks"])
              /\ UNCHANGED << broadcast_log, lastDone, doneDeliv, exposed, wants >>
           \/ /\ ~OutsideWindow(clock)
              /\ tracks # << >>
              /\ subscribers = {}
              /\ Continues(slot, [st0 EXCEPT !.result = "no_subs"])
              /\ UNCHANGED << broadcast_log, lastDone, doneDeliv, exposed, wants >>
           \/ /\ ~OutsideWindow(clock)
              /\ tracks # << >>
              /\ subscribers # {}
              /\ \E order \in Orders(subscribers) :
                    LET st == SlotScan([st0 EXCEPT
                                  !.result = "ran", !.order = order, !.i = 1,
                                  !.log = broadcast_log])
                    IN  /\ Continues(slot, st)
                        /\ IF st.pc = "done"
                           THEN /\ broadcast_log' = st.log
                                /\ SlotEnds(st)
                                /\ UNCHANGED << exposed, wants >>
                           ELSE UNCHANGED << broadcast_log, lastDone,
                                             doneDeliv, exposed, wants >>
        /\ Silent
        /\ UNCHANGED << restoreVars, TRACKS_CACHE, clock, votes, rotationVars, subscribers >>

\* The job from the return of an await of send_track_to_chat, which ended
\* with outcome, to the next await or to the job's end.
slot_job_resumes(p, outcome) ==
    /\ p \in Slots
    /\ proc[p].pc = "sending"
    /\ \E tracks \in {get_tracks_for_date_slot(TRACKS_CACHE, proc[p].date,
                                                proc[p].slot)} :
       LET st == proc[p]
           chat_id == st.order[st.i]
           tried == [st EXCEPT !.attempts =
                        Append(@, << chat_id, tracks[st.k].id, outcome >>)]
       IN  \E next \in
                 {IF st.k < Len(tracks)
                  THEN [tried EXCEPT !.k = @ + 1]
                  ELSE SlotScan([tried EXCEPT
                          !.log = [@ EXCEPT ![chat_id] =
                                      Marked(LogEntry(st.log, chat_id, st.date),
                                             st.slot)],
                          !.wiped = WipedAfter(st, chat_id),
                          !.sent = @ + 1, !.i = @ + 1, !.k = 0])} :
              /\ subscribers' = SubsAfterSend(subscribers, chat_id, outcome)
              /\ wants' = WantsAfterSend(wants, chat_id, outcome)
              /\ Continues(p, next)
              /\ exposed' = ExposedAfter(next)
              /\ Silent
              /\ UNCHANGED << restoreVars, TRACKS_CACHE, clock, votes, rotationVars >>
              /\ IF next.pc = "done"
                 THEN /\ broadcast_log' = next.log
                      /\ SlotEnds(next)
                 ELSE /\ UNCHANGED << broadcast_log, doneDeliv >>
                      /\ lastDone' = Untouched

(***************************************************************************)
(* broadcast_top5_to_all, from broadcast_top5_daily_job or top5_test.      *)
(***************************************************************************)
\* broadcast_top5_to_all from its start to its first await, or to its end.
\* st0 is the caller's coroutine.
top5_begins(p, st0, force) ==
    \/ /\ subscribers = {}
       /\ Continues(p, [st0 EXCEPT !.pc = "done", !.result = "no_subs"])
       /\ UNCHANGED broadcast_log
    \/ /\ subscribers # {}
       /\ \E order \in Orders(subscribers) :
             LET st == Top5Scan([st0 EXCEPT
                           !.result = "ran", !.force = force,
                           !.subs = subscribers, !.order = order, !.i = 1,
                           !.text = build_top5_text(TRACKS_CACHE, votes),
                           !.log = broadcast_log, !.date = clock])
             IN  /\ Continues(p, st)
                 /\ IF st.pc = "done" /\ Top5Records(force)
                    THEN broadcast_log' = st.log
                    ELSE UNCHANGED broadcast_log

\* A ranking job without the check of the date.
AnyDay(d) == FALSE

\* if today != BROADCAST_END
NotFinalDay(d) == d # BROADCAST_END

broadcast_top5_daily_job(mode) ==
    LET st0 == [IdleProc EXCEPT
                  !.kind = "top5", !.date = clock, !.alone = (mode # "free"),
                  !.known = {c \in Chats : << c, "TOP5" >> \in doneDeliv},
                  !.intact = {c \in Chats :
                                 << c, "TOP5" >> \in doneDeliv \ exposed}]
    IN  /\ CanStart("TOP5", mode)
        /\ \/ /\ NotFinalDay(clock)
              /\ Continues("TOP5", [st0 EXCEPT !.pc = "done",
                                            !.result = "not_the_day"])
              /\ UNCHANGED broadcast_log
           \/ /\ ~NotFinalDay(clock)
              /\ top5_begins("TOP5", st0, FALSE)
        /\ Silent
        /\ UNCHANGED << restoreVars, TRACKS_CACHE, clock, votes, rotationVars, subscribers,
                        doneDeliv, exposed, wants >>
        /\ lastDone' = Untouched

\* A handler that takes every user for the administrator.
EveryoneAdmin(user_id) == FALSE

\* if not user or user.id != ADMIN_USER_ID
NotAdmin(user_id) == user_id # ADMIN_USER_ID

\* /top5_test up to its first await: the denial, or the announcement.
top5_test(user_id, mode) ==
    /\ CanStart("TEST", mode)
    /\ CanHandle(mode)
    /\ IF NotAdmin(user_id)
       THEN /\ reply' = Reply("top5_test", user_id, "denied", 0, NoText)
            /\ UNCHANGED proc
       ELSE /\ reply' = Reply("top5_test", user_id, "sending", 0, NoText)
            /\ proc' = [proc EXCEPT !["TEST"] =
                           [IdleProc EXCEPT !.kind = "top5_test",
                                            !.pc = "announce",
                                            !.caller = user_id]]
    /\ NoneEnds
    /\ UNCHANGED << restoreVars, TRACKS_CACHE, clock, votes, rotationVars, subscribers,
                    broadcast_log, lastDone, doneDeliv, exposed, wants >>

\* /top5_test from the end of the await of its announcement: announced,
\* the forced broadcast; the call raised, the handler is over.
top5_test_broadcasts(announced) ==
    /\ proc["TEST"].pc = "announce"
    /\ IF announced
       THEN top5_begins("TEST", proc["TEST"], TRUE)
       ELSE /\ proc' = [proc EXCEPT !["TEST"] = IdleProc]
            /\ NoneEnds
            /\ UNCHANGED broadcast_log
    /\ Silent
    /\ UNCHANGED << restoreVars, TRACKS_CACHE, clock, votes, rotationVars,
                    subscribers, doneDeliv, exposed, wants >>
    /\ lastDone' = Untouched

\* broadcast_top5_to_all from the return of an await of send_message, which
\* ended with outcome, to the next await or to its end.
top5_resumes(p, outcome) ==
    /\ p \in {"TOP5", "TEST"}
    /\ proc[p].pc = "sending"
    /\ LET st == proc[p]
           chat_id == st.order[st.i]
           entry == LogEntry(st.log, chat_id, st.date)
           tried == [st EXCEPT !.attempts = Append(@, << chat_id, 0, outcome >>)]
       IN  \E after \in
                 {IF outcome = "ok"
                  THEN [tried EXCEPT
                          !.log = IF Top5Records(st.force)
                                  THEN [@ EXCEPT ![chat_id] =
                                           Marked(entry, "TOP5")]
                                  ELSE @,
                          !.wiped = IF Top5Records(st.force)
                                    THEN WipedAfter(st, chat_id) ELSE @,
                          !.sent = @ + 1]
                  ELSE IF outcome = "forbidden"
                       THEN [tried EXCEPT !.subs = @ \ {chat_id}]
                       ELSE tried} :
              \E next \in {Top5Scan([after EXCEPT !.i = @ + 1])} :
                 /\ Continues(p, next)
                 /\ IF outcome = "forbidden"
                    THEN subscribers' = after.subs
                    ELSE UNCHANGED subscribers
                 /\ wants' = WantsAfterSend(wants, chat_id, outcome)
                 /\ IF next.pc = "done" /\ Top5Records(st.force)
                    THEN broadcast_log' = next.log
                    ELSE UNCHANGED broadcast_log
                 /\ exposed' = ExposedAfter(next)
                 /\ doneDeliv' = Top5Done(next)
                 /\ Silent
                 /\ UNCHANGED << restoreVars, TRACKS_CACHE, clock, votes, rotationVars >>
                 /\ lastDone' = Untouched

(***************************************************************************)
(* /restore and handle_restore_file: the administrator uploads a file and  *)
(* the handler writes what json.loads made of it over the store.           *)
(***************************************************************************)
\* allowed: the names handle_restore_file takes, and one it refuses.
RestoreFiles == {"subscribers.json", "votes.json", "broadcast_log.json"}
OtherFile == "user_history.json"

\* The uploads drawn: for subscribers.json every set of chats; for
\* broadcast_log.json an entry for each chat that is empty or that of the
\* final day after slot 2 and the ranking; for votes.json at most
\* MaxUploaded entries, for ids of the catalog or for one that is not in
\* it, with likes from 0 and any voters.  The handler checks none of this.
RestoreSubscribers == SUBSET Chats
RestoreEntries ==
    {[last_date |-> NoDate, sent_slots |-> << >>],
     [last_date |-> BROADCAST_END, sent_slots |-> << "2", "TOP5" >>]}
RestoreLogs == [Chats -> RestoreEntries]
RestoreVoteEntries(tracks) ==
    {[track_id |-> t, likes |-> n, voters |-> v] :
        t \in VoteIds(tracks), n \in 0..MaxLikes, v \in SUBSET Users}
RestoreVotes(tracks) ==
    UNION {{v \in [1..k -> RestoreVoteEntries(tracks)] :
              \A i, j \in 1..k : v[i].track_id = v[j].track_id => i = j} :
           k \in 0..MaxUploaded}

\* /restore: the denial, or the administrator's flag.  Its answer is not
\* recorded.
restore(user_id, mode) ==
    /\ CanHandle(mode)
    /\ Len(restored) < MaxRestores
    /\ awaiting_restore' = IF NotAdmin(user_id) THEN awaiting_restore ELSE TRUE
    /\ Silent /\ NoneEnds
    /\ UNCHANGED << restoring, restored, TRACKS_CACHE, clock, votes,
                    rotationVars, broadcastVars >>

\* handle_restore_file up to its first await: it returns for another user,
\* without the flag and for another file name, and else asks for the file.
handle_restore_file(user_id, filename, mode) ==
    /\ CanHandle(mode)
    /\ restoring = NoFile
    /\ Len(restored) < MaxRestores
    /\ restoring' = IF \/ NotAdmin(user_id)
                       \/ ~awaiting_restore
                       \/ filename \notin RestoreFiles
                    THEN NoFile ELSE filename
    /\ Silent /\ NoneEnds
    /\ UNCHANGED << awaiting_restore, restored, TRACKS_CACHE, clock, votes,
                    rotationVars, broadcastVars >>

\* handle_restore_file from the return of the download.  loaded: the
\* content is JSON, and data is what json.loads made of it; the file is
\* overwritten with it and the flag cleared.  Else the download raised or
\* the handler returns "Invalid JSON file", and the file and the flag are
\* left.
handle_restore_file_resumes(loaded, data) ==
    /\ restoring # NoFile
    /\ IF loaded
       THEN /\ subscribers' = IF restoring = "subscribers.json"
                              THEN data ELSE subscribers
            /\ votes' = IF restoring = "votes.json" THEN data ELSE votes
            /\ broadcast_log' = IF restoring = "broadcast_log.json"
                                THEN data ELSE broadcast_log
            /\ exposed' = IF restoring = "broadcast_log.json"
                          THEN doneDeliv ELSE exposed
            /\ awaiting_restore' = FALSE
            /\ restored' = Append(restored, restoring)
       ELSE UNCHANGED << subscribers, votes, broadcast_log, exposed,
                         awaiting_restore, restored >>
    /\ restoring' = NoFile
    /\ lastDone' = Untouched
    /\ Silent /\ NoneEnds
    /\ UNCHANGED << TRACKS_CACHE, clock, rotationVars, proc, doneDeliv, wants >>

\* What the download of file returns.
Uploads(file, tracks) ==
    IF file = "subscribers.json" THEN RestoreSubscribers
    ELSE IF file = "broadcast_log.json" THEN RestoreLogs
    ELSE IF file = "votes.json" THEN RestoreVotes(tracks)
    ELSE {}

\* An upload has overwritten file; the step is the write of an upload.
Uploaded(file) == \E n \in 1..Len(restored) : restored[n] = file
UploadEnds == restored' # restored

(***************************************************************************)
(* Specifications.                                                         *)
(***************************************************************************)
\* /restore and the upload of one of files, or of a file that is refused.
NextRestore(files, mode) ==
    \/ \E u \in Users : restore(u, mode)
    \/ \E u \in Users, f \in files \cup {OtherFile} :
          handle_restore_file(u, f, mode)
    \/ \E data \in Uploads(restoring, TRACKS_CACHE) :
          handle_restore_file_resumes(TRUE, data)
    \/ handle_restore_file_resumes(FALSE, << >>)

\* The votes, the ranking, and an upload of votes.json.
NextVotes ==
    \/ \E t \in VoteIds(TRACKS_CACHE), u \in Users : vote_callback(t, u)
    \/ \E u \in Users : top5(u)
    \/ NextRestore({"votes.json"}, "free")

NextRotation ==
    \/ \E c \in Chats : today(c)
    \/ Tick

\* The scheduled jobs.
NextBroadcasts(mode) ==
    \/ \E slot \in Slots : broadcast_slot_job(slot, mode)
    \/ \E slot \in Slots, o \in Outcomes : slot_job_resumes(slot, o)
    \/ broadcast_top5_daily_job(mode)
    \/ \E o \in Outcomes : top5_resumes("TOP5", o)

\* The scheduled jobs and the subscriptions.
NextJobs(mode) ==
    \/ \E c \in Chats : subscribe(c, mode)
    \/ \E c \in Chats : unsubscribe(c, mode)
    \/ NextBroadcasts(mode)

\* /top5_test.
NextTest(mode) ==
    \/ \E u \in Users : top5_test(u, mode)
    \/ \E announced \in BOOLEAN : top5_test_broadcasts(announced)
    \/ \E o \in Outcomes : top5_resumes("TEST", o)

\* The files the broadcasts read.
BroadcastFiles == {"subscribers.json", "broadcast_log.json"}
\* The broadcasts, the subscriptions and the clock.
NextTriggers(mode) == NextJobs(mode) \/ NextTest(mode) \/ Tick
NextSerial ==
    NextTriggers("serial") \/ NextRestore(BroadcastFiles, "serial")
NextExclusive ==
    NextTriggers("exclusive") \/ NextRestore({"subscribers.json"}, "exclusive")
NextFree ==
    \/ \E c \in Chats : subscribe(c, "free")
    \/ NextBroadcasts("free")

Next ==
    \/ NextVotes \/ NextRotation \/ NextJobs("free") \/ NextTest("free")
    \/ NextRestore(RestoreFiles, "free")
    \/ \E catalog \in Catalogs : Restart(catalog)
Spec == Init /\ [][Next]_vars

\* The ranking of a ledger.
NextTop5 == \E u \in Users : top5(u)

\* /today with tracks.csv edited between two starts of the bot, from the
\* final day of the campaign on.
ReloadCatalogs == {CatalogA, CatalogV}
InitReload == Started(ReloadCatalogs, BROADCAST_END) /\ votes = << >>
NextReload ==
    \/ \E c \in Chats : today(c)
    \/ \E catalog \in ReloadCatalogs : Restart(catalog)
    \/ Tick
SpecReload == InitReload /\ [][NextReload]_vars

\* The ranking of a ledger that has an entry for every track of a catalog
\* with more tracks than places, with likes from 0, and at any place an
\* entry for a track that is not in the catalog.
InitPlaces ==
    /\ Started({CatalogC}, FirstDay)
    /\ \E likes \in [1..Len(CatalogC) -> 0..MaxLikes] :
          \E j \in 0..Len(CatalogC), n \in 0..MaxLikes :
             LET base == Ledger([i \in 1..Len(CatalogC) |-> CatalogC[i].id],
                                likes)
             IN  votes = SubSeq(base, 1, j)
                           \o Ledger(<< StaleId >>, << n >>)
                           \o SubSeq(base, j + 1, Len(base))
SpecPlaces == InitPlaces /\ [][NextTop5]_vars

\* The ledger and the ranking, from an empty ledger, with an upload of
\* votes.json.
SpecVotes == InitVotes /\ [][NextVotes]_vars
\* The ranking, of every ledger.
SpecTop5 == InitTop5 /\ [][NextTop5]_vars
\* /today over the days.
SpecRotation == Init /\ [][NextRotation]_vars
\* The broadcasts and the subscriptions, one at a time.
SpecSerial == Init /\ [][NextSerial]_vars
\* One broadcast at a time, subscriptions and uploads at any await, from
\* the final day on.
SpecExclusive == InitFinalDay /\ [][NextExclusive]_vars
\* An awaited send returns or raises: a broadcast that awaits one goes on.
Resumes ==
    \/ \E slot \in Slots, o \in Outcomes : slot_job_resumes(slot, o)
    \/ \E p \in {"TOP5", "TEST"}, o \in Outcomes : top5_resumes(p, o)
SpecSerialFair ==
    Init /\ [][NextTriggers("serial")]_vars /\ WF_vars(Resumes)
\* The scheduled jobs at any interleaving, the subscriptions and the clock,
\* with rows dated outside the window, and a vote cast or none.
InitNoOp ==
    /\ StartedKeeping({CatalogW}, FirstDay, {})
    /\ votes \in {<< >>, Ledger(<< 1 >>, << 1 >>)}
NextNoOp == NextJobs("free") \/ Tick
SpecNoOp == InitNoOp /\ [][NextNoOp]_vars
\* Every interleaving of the scheduled jobs of the final day, with chats
\* that subscribe at any await.
SpecFree == InitFinalDay /\ [][NextFree]_vars

(***************************************************************************)
(* Properties of the vote ledger, under SpecVotes.                         *)
(***************************************************************************)
\* No track has two entries in votes.json.
OneEntryPerTrack ==
    \A i, j \in 1..Len(votes) : votes[i].track_id = votes[j].track_id => i = j

\* C7: from an empty ledger, while votes are all that has written
\* votes.json (no upload has), for every track of the ledger likes equals
\* the number of voters.
C7_LikesCountVoters ==
    ~Uploaded("votes.json") =>
        /\ OneEntryPerTrack
        /\ \A i \in 1..Len(votes) :
              votes[i].likes = Cardinality(votes[i].voters)

\* C7 witness: a second vote of a user was refused, and a track has the
\* likes of two users.
C7_Witness ==
    /\ reply.h = "vote"
    /\ reply.kind = "ALREADY_VOTED"
    /\ \E i \in 1..Len(votes) : votes[i].likes = 2 /\ votes[i].voters = {1, 2}

\* The step is a vote of user reply'.who for track reply'.id, and it did
\* what C8 says of it.
VoteFrame ==
    LET t == reply'.id
        u == reply'.who
        before == VotesGet(votes, t)
        after == VotesGet(votes', t)
    IN  IF u \in before.voters
        THEN reply'.kind = "ALREADY_VOTED" /\ votes' = votes
        ELSE /\ reply'.kind = "ACCEPTED"
             /\ after.likes = before.likes + 1
             /\ after.voters = before.voters \cup {u}
             /\ \A t2 \in VoteIds(TRACKS_CACHE) \ {t} :
                   VotesGet(votes', t2) = VotesGet(votes, t2)

\* C8: a vote of a user already among the track's voters answers
\* ALREADY_VOTED and leaves the ledger as it was; any other vote answers
\* ACCEPTED, adds one like to the track and changes no other track.
C8_VoteFrame == [][reply'.h = "vote" => VoteFrame]_vars

\* C8 witness: a vote was accepted for one track while the other track of
\* the catalog had likes.
C8_Witness ==
    /\ reply.h = "vote"
    /\ reply.kind = "ACCEPTED"
    /\ \E i \in 1..Len(votes) :
          votes[i].track_id # reply.id /\ votes[i].likes > 0

(***************************************************************************)
(* Properties of the ranking, under SpecTop5.                              *)
(***************************************************************************)
Likes(track_id) == VotesGet(votes, track_id).likes
Ranked == reply.body.lines
RankedIds == {Ranked[i].id : i \in 1..Len(Ranked)}
\* The tracks of the catalog that the ranking leaves out.
LeftOut == TrackIds(TRACKS_CACHE) \ RankedIds
\* The place of a track in the catalog, and of its entry in the ledger.
CatalogIndex(track_id) ==
    CHOOSE n \in 1..Len(TRACKS_CACHE) : TRACKS_CACHE[n].id = track_id
LedgerIndex(track_id) == VoteIndex(votes, track_id)

\* C9: the ranking has at most TopN entries, in non-increasing order of
\* likes, and no track left out has more likes than a track in it.
C9_RankingBounded ==
    reply.h = "top5" =>
        /\ Len(Ranked) <= TopN
        /\ \A i, j \in 1..Len(Ranked) :
              i < j => Ranked[i].likes >= Ranked[j].likes
        /\ \A i \in 1..Len(Ranked) : Ranked[i].likes = Likes(Ranked[i].id)
        /\ \A out \in LeftOut, in \in RankedIds : Likes(out) <= Likes(in)

\* C9 witness: a ranking of TopN tracks with different likes, that leaves
\* out a track with likes.
C9_Witness ==
    /\ reply.h = "top5"
    /\ Len(Ranked) = TopN
    /\ Ranked[1].likes > Ranked[TopN].likes
    /\ \E out \in LeftOut : Likes(out) > 0

\* Tracks with the same likes are ranked, and kept at the cut, in the
\* order that index gives them.
TiesFollow(index(_)) ==
    /\ \A i, j \in 1..Len(Ranked) :
          i < j /\ Ranked[i].likes = Ranked[j].likes
              => index(Ranked[i].id) < index(Ranked[j].id)
    /\ \A out \in LeftOut, in \in RankedIds :
          Likes(out) > 0 /\ Likes(out) = Likes(in) => index(in) < index(out)

\* C10 as stated: tracks with the same likes are ranked in the order of
\* the catalog, whatever the order of their first votes.
C10_TiesInCatalogOrder == reply.h = "top5" => TiesFollow(CatalogIndex)

\* C10: tracks with the same likes are ranked in the order of their
\* entries in the ledger, the order of their first votes, whatever the
\* order of the catalog.
C10_TiesInLedgerOrder == reply.h = "top5" => TiesFollow(LedgerIndex)

\* C10 witness: two tracks with the same likes, ranked against the order
\* of the catalog, and a third left out with the same likes.
C10_Witness ==
    /\ reply.h = "top5"
    /\ \E i, j \in 1..Len(Ranked) :
          /\ i < j
          /\ Ranked[i].likes = Ranked[j].likes
          /\ CatalogIndex(Ranked[i].id) > CatalogIndex(Ranked[j].id)
    /\ \E out \in LeftOut : Likes(out) = Ranked[Len(Ranked)].likes

(***************************************************************************)
(* Properties of /today, under SpecRotation.                               *)
(***************************************************************************)
\* C5: a call of /today by a chat on the date of the chat's call before
\* returns the track that call returned.
C5_SameDaySameTrack ==
    [][\A c \in Chats :
          answers[c].date # NoDate /\ answers'[c].date = answers[c].date
              => answers'[c].track = answers[c].track]_vars

\* C5 witness: a chat called /today again on the date of its call before,
\* with tracks in the catalog that it had not been given.
C5_Witness ==
    \E c \in Chats :
        /\ answers[c].again
        /\ reply.h = "today" /\ reply.who = c /\ reply.kind = "track"
        /\ Available(TRACKS_CACHE, history[c]) # {}
        /\ Len(picks[c]) < Len(TRACKS_CACHE)

\* The tracks chosen for chat c, one per date on which it called /today.
Chosen(c) == picks[c]
CatalogSize == Len(TRACKS_CACHE)

\* C6: the first CatalogSize tracks chosen for a chat on dates of its own
\* are different tracks, and the choice after them leaves that one track
\* as the used tracks.
C6_FullRotation ==
    \A c \in Chats :
        /\ \A i, j \in 1..Min(CatalogSize, Len(Chosen(c))) :
              Chosen(c)[i] = Chosen(c)[j] => i = j
        /\ Len(Chosen(c)) = CatalogSize + 1
              => history[c].used_track_ids = {Chosen(c)[CatalogSize + 1]}

\* C6 witness: a chat was given every track of a catalog of two or more
\* and, the day after, one of them again.
C6_Witness ==
    \E c \in Chats :
        /\ CatalogSize >= 2
        /\ Len(Chosen(c)) = CatalogSize + 1
        /\ \E i \in 1..CatalogSize : Chosen(c)[i] = Chosen(c)[CatalogSize + 1]

(***************************************************************************)
(* Properties of the broadcasts.  finished is the coroutine that the step  *)
(* ended, with its counters and its sends.                                 *)
(***************************************************************************)
\* The chats that coroutine st awaited a send to, and those for which a
\* send ended with outcome.
Attempted(st) == {st.attempts[a][1] : a \in 1..Len(st.attempts)}
EndedWith(st, outcome) ==
    {c \in Chats : \E a \in 1..Len(st.attempts) :
        st.attempts[a][1] = c /\ st.attempts[a][3] = outcome}

\* C1, under SpecSerial: a slot job run again for the same slot and date,
\* with the subscribers and the log as the run before left them, sends
\* nothing and skips every subscriber.
C1_RerunSkipsAll ==
    finished.kind = "slot" /\ finished.rerun =>
        /\ finished.attempts = << >>
        /\ finished.sent = 0
        /\ finished.skipped = Cardinality(subscribers)

\* C1 witness: the second run skipped two subscribers.
C1_Witness ==
    /\ finished.kind = "slot"
    /\ finished.rerun
    /\ finished.result = "ran"
    /\ finished.skipped = 2

\* Coroutine st delivered to no chat of done.
NoRepeat(st, done) ==
    st.kind = "slot" => EndedWith(st, "ok") \cap done = {}

\* C2 as stated, under SpecFree: a slot job delivers to no chat that a
\* job for the slot that ended before it started had delivered the slot
\* to on this date, however the jobs interleave.
C2_NoRepeatEveryInterleaving ==
    /\ NoRepeat(finished, finished.known)
    /\ \A p \in Slots : NoRepeat(proc[p], proc[p].known)

\* C2, under SpecFree: a slot job delivers to no chat that a job for the
\* slot that ended before it started had delivered the slot to on this
\* date, unless a job in flight at that end has saved the log since.
C2_NoRepeatWhileLogIntact ==
    /\ NoRepeat(finished, finished.intact)
    /\ \A p \in Slots : NoRepeat(proc[p], proc[p].intact)

\* C2 witness: with the top-5 job in flight, a slot job that started after
\* a job for its slot had delivered to both subscribers skipped them.
C2_Witness ==
    /\ finished.kind = "slot"
    /\ finished.result = "ran"
    /\ finished.intact = {1, 2}
    /\ finished.skipped = 2
    /\ InFlight("TOP5")

\* C3 as stated, under SpecSerial: when a send of a slot job to a chat
\* ended with an error other than Forbidden, the log that the job saves
\* does not have the slot among the chat's sent slots of the date.
C3_ErrorLeavesUnsent ==
    finished.kind = "slot" =>
        \A c \in EndedWith(finished, "error") :
            ~AlreadySent(LogEntry(broadcast_log, c, finished.date),
                         finished.slot)

\* C4, under SpecSerial: when a send of a broadcast to a chat ended with
\* Forbidden, the chat is no subscriber when the broadcast ends, and every
\* chat of the snapshot was skipped or sent to.
C4_ForbiddenRemoves ==
    finished.result = "ran" =>
        /\ EndedWith(finished, "forbidden") \cap subscribers = {}
        /\ Attempted(finished) \subseteq Range(finished.order)
        /\ Cardinality(Attempted(finished)) + finished.skipped
              = Len(finished.order)

\* C4 witness: the first send of a broadcast ended with Forbidden, and the
\* chat after it in the snapshot got its message.
C4_Witness ==
    /\ finished.result = "ran"
    /\ Len(finished.order) = 2
    /\ finished.order[1] \in EndedWith(finished, "forbidden")
    /\ finished.order[2] \in EndedWith(finished, "ok")
    /\ subscribers = {finished.order[2]}

(***************************************************************************)
(* /today after tracks.csv has lost a track, under SpecReload.             *)
(***************************************************************************)
\* Chat c was given a track today, and the catalog no longer has it.
StoredIsStale(c) ==
    /\ TRACKS_CACHE # << >>
    /\ SameDay(history[c], clock)
    /\ history[c].track_id \notin TrackIds(TRACKS_CACHE)

\* C11 as stated: /today of a chat whose track of today is no longer in
\* the catalog answers with the no-tracks message and leaves the chat's
\* entry of history.json as it was.
C11_StaleIdNotFound ==
    [][\A c \in Chats :
          reply'.h = "today" /\ reply'.who = c /\ StoredIsStale(c)
              => reply'.kind = "no_tracks" /\ history'[c] = history[c]]_vars

(***************************************************************************)
(* Properties of the ranking broadcasts, under SpecSerial.                 *)
(***************************************************************************)
\* The chat's entry of broadcast_log.json has tag for date d.
Recorded(c, d, tag) == AlreadySent(LogEntry(broadcast_log, c, d), tag)

\* A forced broadcast skipped nobody and awaited a send to every chat of
\* its snapshot.
ForcedReachedAll ==
    finished.kind = "top5_test" /\ finished.result = "ran" =>
        /\ finished.skipped = 0
        /\ Attempted(finished) = Range(finished.order)

\* The scheduled ranking job awaited a send to every chat of its snapshot
\* but those that a scheduled ranking job had delivered to before, when
\* the jobs alone have written broadcast_log.json (no upload has).
ScheduledReachedRest ==
    /\ finished.kind = "top5" /\ finished.result = "ran"
    /\ ~Uploaded("broadcast_log.json")
    => Range(finished.order) \ finished.known \subseteq Attempted(finished)

\* C12: a forced ranking broadcast awaits a send to every subscriber,
\* marked with TOP5 or not, and no step of it changes broadcast_log.json;
\* the scheduled ranking job still sends to every subscriber that no
\* scheduled ranking job has delivered to, while the jobs alone have
\* written broadcast_log.json.
C12_ForceLeavesLog ==
    /\ [](ForcedReachedAll /\ ScheduledReachedRest)
    /\ [][proc'["TEST"].pc # "idle" \/ finished'.kind = "top5_test"
             => broadcast_log' = broadcast_log]_vars

\* C12 witness: a forced broadcast delivered the ranking to two chats
\* that the log has TOP5 for today.
C12_Witness ==
    /\ finished.kind = "top5_test"
    /\ EndedWith(finished, "ok") = {1, 2}
    /\ \A c \in {1, 2} : Recorded(c, clock, "TOP5")

\* C13: on the final day, when scheduled ranking jobs do not overlap and
\* they alone have written broadcast_log.json (no upload has), a job sends
\* to no chat that a job before it delivered the ranking to; a delivery is
\* recorded as TOP5 and a send that failed is not, and each job sends to
\* every subscriber without a delivery.
C13_RankingAtMostOnce ==
    /\ finished.kind = "top5" /\ finished.result = "ran"
    /\ ~Uploaded("broadcast_log.json")
    =>
        /\ Attempted(finished) \cap finished.known = {}
        /\ \A c \in EndedWith(finished, "ok") :
              Recorded(c, finished.date, "TOP5")
        /\ \A c \in EndedWith(finished, "error") :
              ~Recorded(c, finished.date, "TOP5")
        /\ Range(finished.order) \ finished.known \subseteq Attempted(finished)

\* C13 witness: a scheduled ranking job skipped the chat that the job
\* before had delivered to and delivered to the other chat.
C13_Witness ==
    /\ finished.kind = "top5"
    /\ finished.known = {1}
    /\ finished.skipped = 1
    /\ EndedWith(finished, "ok") = {2}

(***************************************************************************)
(* Triggers that have nothing to do, under SpecNoOp.                       *)
(***************************************************************************)
\* The stores.
stores == << subscribers, broadcast_log, votes, history >>

\* The step starts the scheduled job of slot, or the ranking job: the job
\* was not in flight, and awaits a send after the step or has ended in it.
SlotStarts(slot) ==
    /\ proc[slot].pc = "idle"
    /\ \/ proc'[slot].pc # "idle"
       \/ finished'.kind = "slot" /\ finished'.slot = slot
RankingStarts ==
    /\ proc["TOP5"].pc = "idle"
    /\ proc'["TOP5"].pc # "idle" \/ finished'.kind = "top5"

\* No row of the catalog is for today and slot.
NoRowFor(slot) ==
    \A n \in 1..Len(TRACKS_CACHE) :
        TRACKS_CACHE[n].date # clock \/ TRACKS_CACHE[n].slot # slot

\* The conditions in which C14 says a scheduled job does nothing.
BeyondWindow == clock < BROADCAST_START \/ clock > BROADCAST_END
SlotNoOp(slot) == BeyondWindow \/ NoRowFor(slot) \/ subscribers = {}
RankingNoOp == clock # BROADCAST_END

\* The job that the step started has ended in it, having awaited no
\* send, and the stores are as they were.
DidNothing(p) ==
    /\ proc'[p].pc = "idle"
    /\ finished'.attempts = << >>
    /\ finished'.sent = 0
    /\ stores' = stores

\* C14: a slot job started outside the window, or with no row of the
\* catalog for its date and slot, or with no subscriber, and a ranking
\* job started on another date than BROADCAST_END, end before any send,
\* at the first of these tests that applies, and leave subscribers,
\* broadcast log, votes and history as they were.
C14_NoOpTriggers ==
    [][/\ \A slot \in Slots :
             SlotStarts(slot) /\ SlotNoOp(slot)
                => /\ DidNothing(slot)
                   /\ finished'.result =
                         IF BeyondWindow THEN "outside"
                         ELSE IF NoRowFor(slot) THEN "no_tracks"
                         ELSE "no_subs"
       /\ RankingStarts /\ RankingNoOp
             => /\ DidNothing("TOP5")
                /\ finished'.result = "not_the_day"]_vars

\* C14 witness: scheduled jobs have started and ended in each of the
\* conditions alone: a slot job with a row for its date and subscribers
\* on the day before the window and on the day after it, a slot job
\* within the window with subscribers and no row, one with a row and no
\* subscriber, and a ranking job with subscribers on another day than the
\* final one; a vote is in the ledger and every chat is subscribed.
C14_Witness ==
    /\ noops = {"before", "after", "no_row", "no_subs", "not_the_day"}
    /\ votes # << >>
    /\ subscribers = Chats

\* C15: /top5_test of a user who is not ADMIN_USER_ID answers with the
\* denial, starts no broadcast and leaves subscribers, broadcast log,
\* votes and history as they were.
C15_DeniedNoChange ==
    [][reply'.h = "top5_test" /\ reply'.who # ADMIN_USER_ID
          => /\ reply'.kind = "denied"
             /\ proc' = proc
             /\ finished' = IdleProc
             /\ stores' = stores]_vars

\* C15 witness: /top5_test was denied while the bot had two subscribers.
C15_Witness ==
    /\ reply.h = "top5_test"
    /\ reply.kind = "denied"
    /\ reply.who # ADMIN_USER_ID
    /\ subscribers = {1, 2}

(***************************************************************************)
(* The text of the ranking, under SpecVotes.                               *)
(***************************************************************************)
\* An entry of the ledger has likes and its id is an id of the catalog.
SomeoneScored ==
    \E i \in 1..Len(votes) :
        /\ votes[i].likes > 0
        /\ \E n \in 1..Len(TRACKS_CACHE) : TRACKS_CACHE[n].id = votes[i].track_id

\* C16: the text /top5 answers with is the no-votes message exactly when
\* no entry of the ledger has likes > 0 for an id of the catalog, and
\* otherwise a ranking of at least one line; the step changes neither the
\* ledger nor the catalog.
C16_NoVotesMessage ==
    [][reply'.h = "top5"
          => /\ reply'.body.kind \in {"no_votes", "ranking"}
             /\ (reply'.body.kind = "no_votes") <=> ~SomeoneScored
             /\ reply'.body.kind = "ranking" => Len(reply'.body.lines) > 0
             /\ votes' = votes
             /\ TRACKS_CACHE' = TRACKS_CACHE]_vars

\* C16 witness: /top5 answered with the no-votes message while the ledger
\* held an entry with likes for a removed track and one without likes for
\* a track of the catalog.
C16_Witness ==
    /\ reply.h = "top5"
    /\ reply.body.kind = "no_votes"
    /\ \E i \in 1..Len(votes) :
          votes[i].likes > 0 /\ votes[i].track_id = StaleId
    /\ \E i \in 1..Len(votes) :
          votes[i].likes = 0 /\ votes[i].track_id \in TrackIds(TRACKS_CACHE)

(***************************************************************************)
(* The tracks of a slot, under SpecSerial.                                 *)
(***************************************************************************)
\* The row has display text (title and artist, or the message) or a media
\* reference (the link or the audio).
HasTextOrMedia(t) ==
    \/ t.title_artist # "" \/ t.message # ""
    \/ t.video_link # "" \/ t.audio # ""

\* The rows of the catalog dated d, for slot, with text or media.
RowsFor(d, slot) ==
    {TRACKS_CACHE[n] : n \in {m \in 1..Len(TRACKS_CACHE) :
        /\ TRACKS_CACHE[m].date = d
        /\ TRACKS_CACHE[m].slot = slot
        /\ HasTextOrMedia(TRACKS_CACHE[m])}}

\* C17: get_tracks_for_date_slot(D, S) returns exactly the rows of the
\* catalog dated D, for slot S, that have a title, a message, a link or an
\* audio; and a slot job that ends for want of tracks had no such row.
C17_MessageOnlyIncluded ==
    /\ \A d \in Days, slot \in Slots :
          Range(get_tracks_for_date_slot(TRACKS_CACHE, d, slot))
              = RowsFor(d, slot)
    /\ finished.kind = "slot" /\ finished.result = "no_tracks"
          => RowsFor(finished.date, finished.slot) = {}

\* The ids of the rows with a title, a link or an audio dated d, for slot.
SlotIds(d, slot) ==
    {TRACKS_CACHE[n].id : n \in {m \in 1..Len(TRACKS_CACHE) :
        /\ TRACKS_CACHE[m].date = d
        /\ TRACKS_CACHE[m].slot = slot
        /\ HasContent(TRACKS_CACHE[m])}}

\* The ids of the tracks coroutine st awaited a send of to chat c.
SentIds(st, c) ==
    {st.attempts[a][2] : a \in {b \in 1..Len(st.attempts) :
                                   st.attempts[b][1] = c}}

\* The sends of a job to one chat followed the ids, ascending.
InIdOrder(st) ==
    \A a, b \in 1..Len(st.attempts) :
        a < b /\ st.attempts[a][1] = st.attempts[b][1]
            => st.attempts[a][2] < st.attempts[b][2]

\* The sends of a job to one chat followed the rows of the catalog.
InCatalogOrder(st) ==
    \A a, b \in 1..Len(st.attempts) :
        a < b /\ st.attempts[a][1] = st.attempts[b][1]
            => CatalogIndex(st.attempts[a][2]) < CatalogIndex(st.attempts[b][2])

\* While a slot job awaits a send to a chat, the chat's entry in the job's
\* log has not the slot, and the tracks before the one awaited have been
\* attempted.
MarkNotYet ==
    \A p \in Slots :
        proc[p].pc = "sending" =>
            LET st == proc[p]
                c == st.order[st.i]
            IN  /\ ~AlreadySent(LogEntry(st.log, c, st.date), st.slot)
                /\ Cardinality(SentIds(st, c)) = st.k - 1
                /\ SentIds(st, c) \subseteq SlotIds(st.date, st.slot)

\* A slot job that ended marked the chats it sent to, and had attempted
\* every track of the slot for each of them.
MarkAfterAll ==
    finished.kind = "slot" /\ finished.result = "ran" =>
        \A c \in Chats :
            IF c \in Attempted(finished)
            THEN /\ SentIds(finished, c) = SlotIds(finished.date, finished.slot)
                 /\ AlreadySent(LogEntry(finished.log, c, finished.date),
                                finished.slot)
            ELSE SentIds(finished, c) = {}

\* C18 as stated: a slot job sends the tracks of the slot to each chat in
\* the order of their rows in the catalog, whatever their ids, and marks
\* the slot for the chat after the last of them was attempted.
C18_CatalogOrderThenMark ==
    /\ \A p \in Slots : InCatalogOrder(proc[p])
    /\ InCatalogOrder(finished)
    /\ MarkNotYet
    /\ MarkAfterAll

\* C18, amended: a slot job sends the tracks of the slot to each chat in
\* ascending order of their ids, and marks the slot for the chat after the
\* last of them was attempted.
C18_IdOrderThenMark ==
    /\ \A p \in Slots : InIdOrder(proc[p])
    /\ InIdOrder(finished)
    /\ MarkNotYet
    /\ MarkAfterAll

\* C18 witness: a slot job ended after it sent track 1 and then track 2
\* to a chat, from a catalog that has the row of track 2 first.
C18_Witness ==
    /\ finished.kind = "slot"
    /\ finished.result = "ran"
    /\ TRACKS_CACHE = CatalogB
    /\ \E c \in Chats :
          /\ SentIds(finished, c) = {1, 2}
          /\ AlreadySent(LogEntry(broadcast_log, c, clock), finished.slot)

(***************************************************************************)
(* The broadcast log, under SpecSerial.                                    *)
(***************************************************************************)
\* The tag a scheduled job records.
TagOf(st) == IF st.kind = "slot" THEN st.slot ELSE "TOP5"

\* A trigger on date d can record tag: a slot job when d is in the window
\* and the slot has tracks on d, the ranking job on BROADCAST_END.
CanRecordOn(d, tag) ==
    IF tag = "TOP5" THEN d = BROADCAST_END
    ELSE /\ tag \in Slots
         /\ d >= BROADCAST_START /\ d <= BROADCAST_END
         /\ SlotIds(d, tag) # {}

\* An entry of broadcast_log.json: without a date it has no tag; with one,
\* the date is not after today, no tag is there twice, and every tag is one
\* that a trigger on that date records.
EntryOfOneDate(e) ==
    /\ e.last_date = NoDate => e.sent_slots = << >>
    /\ e.last_date # NoDate =>
          /\ e.last_date <= clock
          /\ e.sent_slots # << >>
          /\ \A i, j \in 1..Len(e.sent_slots) :
                e.sent_slots[i] = e.sent_slots[j] => i = j
          /\ \A i \in 1..Len(e.sent_slots) :
                CanRecordOn(e.last_date, e.sent_slots[i])

\* The entries a job that has ended wrote in place of entries of another
\* date have its date and its tag alone.
WipedAreNew ==
    \A c \in finished.wiped :
        broadcast_log[c] = [last_date |-> finished.date,
                            sent_slots |-> << TagOf(finished) >>]

\* A step that changes a chat's entry and is not the write of an upload
\* is the end of a scheduled job; the
\* new entry is of the job's date, the date of its trigger, and is the
\* job's tag alone when the old one was of another date, the old one with
\* the tag appended when it was of that date.
WritesEntry(c) ==
    broadcast_log'[c] # broadcast_log[c] /\ ~UploadEnds =>
        /\ finished'.kind \in {"slot", "top5"}
        /\ finished'.date <= clock
        /\ IF broadcast_log[c].last_date # finished'.date
           THEN broadcast_log'[c] =
                   [last_date |-> finished'.date,
                    sent_slots |-> << TagOf(finished') >>]
           ELSE /\ ~AlreadySent(broadcast_log[c], TagOf(finished'))
                /\ broadcast_log'[c] = Marked(broadcast_log[c], TagOf(finished'))

\* The entries are as the triggers leave them, while the triggers alone
\* have written broadcast_log.json (no upload has).
EntriesOfOneDate ==
    ~Uploaded("broadcast_log.json")
        => \A c \in Chats : EntryOfOneDate(broadcast_log[c])

\* C19: every entry of the broadcast log that the triggers have written
\* holds only tags that were recorded on its last_date, none of them
\* twice; a trigger on date D that writes the entry of a chat whose stored
\* last_date differs from D writes last_date = D and the tag just sent
\* alone, also after an upload of broadcast_log.json.
C19_EntriesOfOneDate ==
    /\ [](WipedAreNew /\ EntriesOfOneDate)
    /\ [][\A c \in Chats : WritesEntry(c)]_vars

\* C19 witness: the job of slot 2 ended on the final day and wrote anew
\* the entry of a chat that had tags of an earlier date, while the entry
\* of the other chat still is of the day before.
C19_Witness ==
    /\ finished.kind = "slot"
    /\ finished.slot = "2"
    /\ clock = BROADCAST_END
    /\ \E c, d \in Chats :
          /\ c \in finished.wiped
          /\ broadcast_log[c] = [last_date |-> clock, sent_slots |-> << "2" >>]
          /\ broadcast_log[d] = [last_date |-> clock - 1,
                                 sent_slots |-> << "1" >>]

(***************************************************************************)
(* The entries of history.json, under SpecRotation.                        *)
(***************************************************************************)
\* The chat's entry, once it has a date, has its track among its used ids.
CurrentIsUsed(c) ==
    history[c].last_date # NoDate
        => history[c].track_id \in history[c].used_track_ids

\* C20: every entry of history.json that has last_date set has its
\* track_id among its used_track_ids, and /today of one chat leaves the
\* entry of every other chat as it was.
C20_CurrentUsedOthersKept ==
    /\ [](\A c \in Chats : CurrentIsUsed(c))
    /\ [][\A r \in Chats :
             reply'.h = "today" /\ reply'.who = r
                 => \A c \in Chats \ {r} : history'[c] = history[c]]_vars

\* C20 witness: /today chose a second track for a chat today, while
\* another chat has an entry of an earlier date.
C20_Witness ==
    \E r \in Chats, c \in Chats :
        /\ c # r
        /\ reply.h = "today" /\ reply.who = r /\ reply.kind = "track"
        /\ history[r].last_date = clock
        /\ Cardinality(history[r].used_track_ids) = 2
        /\ history[r].track_id = picks[r][Len(picks[r])]
        /\ history[c].last_date # NoDate
        /\ history[c].last_date < clock

(***************************************************************************)
(* The end of a broadcast, under SpecSerialFair.                           *)
(***************************************************************************)
\* The number of sends a broadcast awaits for one chat.
SendsPerChat(st) ==
    IF st.kind = "slot" THEN Cardinality(SlotIds(st.date, st.slot)) ELSE 1

\* A broadcast that ran went through its list of chats once: the list has
\* no chat twice, every chat of it was skipped or had its sends awaited,
\* each send once, whatever the sends before it ended with.
VisitedOnce(st) ==
    st.result = "ran" =>
        /\ \A i, j \in 1..Len(st.order) : st.order[i] = st.order[j] => i = j
        /\ Attempted(st) \subseteq Range(st.order)
        /\ Cardinality(Attempted(st)) + st.skipped = Len(st.order)
        /\ Len(st.attempts) = Cardinality(Attempted(st)) * SendsPerChat(st)
        /\ \A a, b \in 1..Len(st.attempts) :
              /\ st.attempts[a][1] = st.attempts[b][1]
              /\ st.attempts[a][2] = st.attempts[b][2]
              => a = b

\* C21: a slot job and a ranking broadcast that await a send come to
\* their end, whatever the sends end with, and at the end every chat of
\* the list taken at the start has been visited once: skipped, or its
\* sends awaited, after a failure for a chat before it too.
C21_BroadcastsFinish ==
    /\ \A p \in Procs : (proc[p].pc = "sending") ~> (proc[p].pc = "idle")
    /\ [](VisitedOnce(finished))

\* C21 witness: a broadcast ended after a send to one chat was refused
\* for good, a send to another raised an error, and a chat after them was
\* sent to.
C21_Witness ==
    /\ finished.result = "ran"
    /\ \E a, b \in 1..Len(finished.attempts) :
          /\ a < b
          /\ finished.attempts[a][3] # "ok"
          /\ finished.attempts[b][1] # finished.attempts[a][1]
          /\ finished.attempts[b][3] = "ok"

(***************************************************************************)
(* The entries of the ranking, under SpecPlaces.                           *)
(***************************************************************************)
\* The ids of the catalog that have an entry with likes in the ledger.
LikedIds ==
    {id \in TrackIds(TRACKS_CACHE) :
        \E i \in 1..Len(votes) : votes[i].track_id = id /\ votes[i].likes > 0}

\* C22: every line of the ranking is for an id of the catalog that has
\* likes > 0 in the ledger; an entry of the ledger for an id that is not in
\* the catalog is on no line and takes no place: the ranking has TopN
\* lines, or a line for every liked track of the catalog.
C22_OnlyCatalogTracks ==
    reply.h = "top5" =>
        /\ RankedIds \subseteq LikedIds
        /\ \A i \in 1..Len(Ranked) : Ranked[i].likes = Likes(Ranked[i].id)
        /\ \A i, j \in 1..Len(Ranked) : Ranked[i].id = Ranked[j].id => i = j
        /\ Len(Ranked) = Min(TopN, Cardinality(LikedIds))

\* C22 witness: a ranking of TopN tracks of the catalog, from a ledger in
\* which an entry for a track that is not in the catalog has more likes
\* than one of them.
C22_Witness ==
    /\ reply.h = "top5"
    /\ Len(Ranked) = TopN
    /\ \E i \in 1..Len(Ranked) : Likes(StaleId) > Ranked[i].likes

(***************************************************************************)
(* The subscriptions and the broadcasts in flight, under SpecExclusive.    *)
(***************************************************************************)
\* C23: when a ranking broadcast has ended, the chats of subscribers.json
\* are those whose last /subscribe or /unsubscribe was /subscribe and
\* that have not blocked the bot: no /subscribe and no /unsubscribe made
\* while the broadcast was in flight is undone, also when the broadcast
\* removed a chat that had blocked the bot.  (Runs with an upload of
\* subscribers.json are left aside.)
C23_SubscriptionsKept ==
    /\ finished.kind \in {"top5", "top5_test"} /\ finished.result = "ran"
    /\ ~Uploaded("subscribers.json")
    => subscribers = wants

\* The step makes coroutine p await a send it did not await before.
StartsSend(p) ==
    /\ proc'[p].pc = "sending"
    /\ \/ proc[p].pc # "sending"
       \/ proc'[p].i # proc[p].i
       \/ proc'[p].k # proc[p].k

\* C24: no slot job and no ranking broadcast starts a send to a chat
\* whose last /subscribe or /unsubscribe was /unsubscribe, whether the
\* job took its list of chats before the /unsubscribe or after it.  (A
\* chat that blocked the bot during the job is left aside, and so are runs
\* with an upload of subscribers.json.)
C24_NoSendAfterUnsubscribe ==
    [][\A p \in Procs :
          StartsSend(p) /\ ~Uploaded("subscribers.json")' =>
              \/ proc'[p].order[proc'[p].i] \in wants'
              \/ proc'[p].order[proc'[p].i] \in EndedWith(proc'[p], "forbidden")
      ]_vars

(***************************************************************************)
(* The slots and the ranking in one entry of the log, under SpecSerial.    *)
(***************************************************************************)
\* On the final day, when the triggers alone have written
\* broadcast_log.json (no upload has), a step leaves in every entry of
\* today the tags it had.
KeepsTagsOfFinalDay ==
    clock = BROADCAST_END /\ ~Uploaded("broadcast_log.json")' =>
        \A c \in Chats :
            broadcast_log[c].last_date = clock
                => /\ broadcast_log'[c].last_date = clock
                   /\ Range(broadcast_log[c].sent_slots)
                         \subseteq Range(broadcast_log'[c].sent_slots)

\* A scheduled job starts a send to a chat only if the chat's entry of
\* broadcast_log.json has not the job's tag for the job's date.
SendsToUnmarked ==
    \A p \in Slots \cup {"TOP5"} :
        StartsSend(p) =>
            ~Recorded(proc'[p].order[proc'[p].i], proc'[p].date, TagOf(proc'[p]))

\* C25: with one trigger at a time, and the triggers alone writing
\* broadcast_log.json, on the final day the record of TOP5 for a chat
\* keeps the slots recorded for it that day and the record of a slot keeps
\* TOP5, so that a slot job run again after the ranking skips the chat,
\* and the ranking job run again after a slot job skips it too.
C25_TagsShareEntry ==
    /\ [][KeepsTagsOfFinalDay]_vars
    /\ [][SendsToUnmarked]_vars

\* C25 witness: on the final day the job of slot 2, run again after the
\* ranking job, skipped every subscriber, and a chat's entry has the slot
\* and then TOP5.
C25_Witness ==
    /\ clock = BROADCAST_END
    /\ finished.kind = "slot"
    /\ finished.slot = "2"
    /\ finished.result = "ran"
    /\ finished.attempts = << >>
    /\ finished.skipped = Cardinality(subscribers)
    /\ \E c \in subscribers :
          broadcast_log[c] = [last_date |-> clock,
                              sent_slots |-> << "2", "TOP5" >>]

====
